---- MODULE Spec2Model ----
(***************************************************************************)
(* Model of src/src/any.rs: type erasure behind Box<dyn Any ...> and       *)
(* Box<dyn CloneAny ...>, the unchecked downcasts, into_box, the Clone     *)
(* impls of the boxed clone-capable trait objects and their Debug impls.   *)
(*                                                                         *)
(* Memory is modelled explicitly.  A box is a fat pointer: a data address  *)
(* into `heap` plus the vtable it was built with (identified by the        *)
(* concrete type the vtable belongs to).  A heap cell remembers which      *)
(* concrete type wrote it; reading it as another type is undefined         *)
(* behaviour, modelled as a nondeterministic outcome.                      *)
(***************************************************************************)
EXTENDS Integers, Sequences, FiniteSets, TLC

\* ---------------------------------------------------------------- bounds
\* Number of boxes (and heap addresses) that may be live at once.
MaxBoxes == 2

Slots == 1..MaxBoxes
Addrs == 1..MaxBoxes
\* The payloads the callers erase and write.
Vals == {42, 43}

\* ------------------------------------------------------- concrete types
\* The concrete types the callers erase.  i32: Clone + Send + Sync;
\* Cell<i32>: Clone + Send, not Sync; Rc<Cell<i32>>: Clone only, and its
\* clone is shallow (a second pointer to the same cell).
Types == {"i32", "Cell", "Rc"}

IsClone(T) == T \in {"i32", "Cell", "Rc"}
IsSend(T) == T \in {"i32", "Cell"}
IsSync(T) == T \in {"i32"}
DeepClone(T) == T \in {"i32", "Cell"}

\* The three capability variants: dyn X, dyn X + Send, dyn X + Send + Sync.
Variants == {"Plain", "Send", "SendSync"}

\* Identifiers that are not unique: Cell<i32> and Rc<Cell<i32>> collide.
TypeIdOfColliding(T) ==
  CASE T = "i32" -> 101
    [] T = "Cell" -> 102
    [] T = "Rc" -> 102
    [] OTHER -> 0

\* core::any::TypeId::of::<T>(): one identifier per concrete type.
TypeIdOf(T) ==
  CASE T = "i32" -> 101
    [] T = "Cell" -> 102
    [] T = "Rc" -> 103
    [] OTHER -> 0

\* An IntoBox impl whose bound leaves the auto traits out.
ImplementsNoAuto(T, cloneable, variant) == cloneable => IsClone(T)

\* T: $any_trait $(+ $auto_traits)*, the bound of the IntoBox impl; CloneAny
\* is implemented for every T: Any + Clone.
Implements(T, cloneable, variant) ==
  /\ cloneable => IsClone(T)
  /\ variant \in {"Send", "SendSync"} => IsSend(T)
  /\ variant = "SendSync" => IsSync(T)

\* ---------------------------------------------------------------- state
VARIABLES
  boxes,   \* slot -> the box a caller variable holds (erased, typed or none)
  heap,    \* data address -> the cell allocated there
  rc,      \* address -> the shared RcBox an Rc<Cell<i32>> points to
  last,    \* the last operation and what it returned
  out      \* the text written by the last Debug formatting

vars == <<boxes, heap, rc, last, out>>

\* Formatter options: no width, no precision, left alignment.
NoOpts == [width |-> 0, hasPrec |-> FALSE, prec |-> 0, align |-> "<"]

\* The format specifications the callers use: {:?} and the same with a
\* width (0 stands for none), a precision and an alignment.
FmtOptions ==
  {o \in [width : {0, 28}, hasPrec : BOOLEAN, prec : {0, 3, 12},
          align : {"<", ">", "^"}] :
     /\ o.hasPrec <=> o.prec # 0
     /\ o.width = 0 => o.align = "<"}

NoBox == [kind |-> "none", data |-> 0, vt |-> "none", variant |-> "none",
          cloneable |-> FALSE]
FreeCell == [ty |-> "free", val |-> 0]
FreeRc == [strong |-> 0, val |-> 0]
NoOp == [op |-> "init", slot |-> 0, T |-> "none", kind |-> "none", val |-> 0,
         arg |-> 0, src |-> 0, hook |-> "none", relabel |-> FALSE,
         rel |-> "none", pval |-> 0, other |-> 0, opts |-> NoOpts]

Min(S) == CHOOSE x \in S : \A y \in S : x <= y

FreeSlots(b) == {s \in Slots : b[s].kind = "none"}
FreeAddrs(h) == {a \in Addrs : h[a].ty = "free"}
FreeRcs(r) == {a \in Addrs : r[a].strong = 0}

Erased(b) == {s \in Slots : b[s].kind = "erased"}

Init ==
  /\ boxes = [s \in Slots |-> NoBox]
  /\ heap = [a \in Addrs |-> FreeCell]
  /\ rc = [a \in Addrs |-> FreeRc]
  /\ last = NoOp
  /\ out = <<>>

\* ------------------------------------------------ concrete-type semantics
\* The value a caller builds before erasing it: an Rc<Cell<i32>> is a pointer
\* to a fresh RcBox holding n; the other types hold n inline.
MakeValue(T, n, r) ==
  IF T = "Rc"
    THEN LET p == Min(FreeRcs(r))
         IN [raw |-> p, rc |-> [r EXCEPT ![p] = [strong |-> 1, val |-> n]]]
    ELSE [raw |-> n, rc |-> r]

\* What the concrete type's own equality compares.
Observe(T, raw, r) == IF T = "Rc" THEN r[raw].val ELSE raw

\* T::clone(&self), as called by `self.clone()` in the clone_to_any hooks.
TClone(T, raw, r) ==
  IF T = "Rc"
    THEN [raw |-> raw, rc |-> [r EXCEPT ![raw].strong = @ + 1]]
    ELSE [raw |-> raw, rc |-> r]

\* Drop glue of the concrete type T for the value stored as raw.
TDrop(T, raw, r) ==
  IF T = "Rc"
    THEN IF r[raw].strong = 1
           THEN [r EXCEPT ![raw] = FreeRc]
           ELSE [r EXCEPT ![raw].strong = @ - 1]
    ELSE r

\* Assignment through a typed reference: *r = w (Cell::set through the Rc).
TWrite(T, a, w, h, r) ==
  IF T = "Rc"
    THEN [heap |-> h, rc |-> [r EXCEPT ![h[a].val].val = w]]
    ELSE [heap |-> [h EXCEPT ![a].val = w], rc |-> r]

\* ------------------------------------------------------------ the module
\* Box::new(v): a fresh allocation holding v, written as type T.
Box_new(h, T, raw) ==
  LET a == Min(FreeAddrs(h))
  IN [addr |-> a, heap |-> [h EXCEPT ![a] = [ty |-> T, val |-> raw]]]

\* IntoBox::into_box: Box::new(self), coerced to the trait object: the fat
\* pointer carries the vtable of the concrete type T.
into_box(b, h, T, raw, cloneable, variant) ==
  LET al == Box_new(h, T, raw)
      s == Min(FreeSlots(b))
  IN [slot |-> s,
      heap |-> al.heap,
      boxes |-> [b EXCEPT ![s] = [kind |-> "erased", data |-> al.addr,
                                  vt |-> T, variant |-> variant,
                                  cloneable |-> cloneable]]]

\* A type_id that does not dispatch: the identifier of the trait object type
\* itself, one per erasure interface.
type_id_static(bx) ==
  (IF bx.cloneable THEN 200 ELSE 300)
  + (CASE bx.variant = "Plain" -> 1 [] bx.variant = "Send" -> 2 [] OTHER -> 3)

\* Downcast::type_id: self.type_id() dispatches through the vtable to the
\* concrete type's Any::type_id.
type_id(bx) == TypeIdOf(bx.vt)

\* A cast that lands on another address than the boxed value's.
DataPtrWrong(bx) == (bx.data % MaxBoxes) + 1

\* `self as *const Self as *const T`: the cast drops the vtable and keeps
\* the data address.
DataPtr(bx) == bx.data

\* A checked read: a mismatch is reported instead of reinterpreted.
ReinterpretChecked(cell, T) ==
  IF cell.ty = T
    THEN {[kind |-> "value", raw |-> cell.val]}
    ELSE {[kind |-> "err", raw |-> 0]}

\* Reading a cell as a T.  With T the type that wrote the cell this is the
\* stored value; with any other T it is undefined behaviour: an arbitrary
\* outcome.
Reinterpret(cell, T) ==
  IF cell.ty = T
    THEN {[kind |-> "value", raw |-> cell.val]}
    ELSE {[kind |-> "ub", raw |-> x] : x \in Vals}

\* &*(self as *const Self as *const T)
downcast_ref_unchecked(bx, h, T) == Reinterpret(h[DataPtr(bx)], T)

\* &mut *(self as *mut Self as *mut T)
downcast_mut_unchecked(bx, h, T) == Reinterpret(h[DataPtr(bx)], T)

\* A downcast that makes the Box<T> from a copy of the pointer and leaves
\* the erased box in place.
downcast_unchecked_copy(b, s, T) ==
  LET n == IF FreeSlots(b) = {} THEN s ELSE Min(FreeSlots(b))
  IN [b EXCEPT ![n] = [kind |-> "typed", data |-> b[s].data, vt |-> T,
                       variant |-> "none", cloneable |-> FALSE]]

\* Box::from_raw(Box::into_raw(self) as *mut T): the erased box is given up
\* without running its destructor and a Box<T> is made of the same address.
downcast_unchecked(b, s, T) ==
  [b EXCEPT ![s] = [kind |-> "typed", data |-> DataPtr(b[s]), vt |-> T,
                    variant |-> "none", cloneable |-> FALSE]]

\* A clone_to_any that makes a second box of the same allocation instead
\* of boxing a clone of the value.
clone_to_any_alias(b, h, r, s) ==
  LET n == Min(FreeSlots(b))
  IN [slot |-> n, heap |-> h, rc |-> r,
      boxes |-> [b EXCEPT ![n] = [b[s] EXCEPT !.variant = "Plain"]],
      hook |-> "clone_to_any", relabel |-> FALSE]

\* CloneToAny::clone_to_any for the concrete type behind slot s, reached
\* through the vtable: Box::new(self.clone()) as Box<dyn CloneAny>.
clone_to_any(b, h, r, s) ==
  LET T == b[s].vt
      c == TClone(T, h[DataPtr(b[s])].val, r)
      nb == into_box(b, h, T, c.raw, TRUE, "Plain")
  IN [slot |-> nb.slot, boxes |-> nb.boxes, heap |-> nb.heap, rc |-> c.rc,
      hook |-> "clone_to_any", relabel |-> FALSE]

\* CloneToAnySend::clone_to_any_send, implemented for T: Any + Clone + Send.
clone_to_any_send(b, h, r, s) ==
  LET T == b[s].vt
      c == TClone(T, h[DataPtr(b[s])].val, r)
      nb == into_box(b, h, T, c.raw, TRUE, "Send")
  IN [slot |-> nb.slot, boxes |-> nb.boxes, heap |-> nb.heap, rc |-> c.rc,
      hook |-> "clone_to_any_send", relabel |-> FALSE]

\* CloneToAnySendSync::clone_to_any_send_sync, for T: Any+Clone+Send+Sync.
clone_to_any_send_sync(b, h, r, s) ==
  LET T == b[s].vt
      c == TClone(T, h[DataPtr(b[s])].val, r)
      nb == into_box(b, h, T, c.raw, TRUE, "SendSync")
  IN [slot |-> nb.slot, boxes |-> nb.boxes, heap |-> nb.heap, rc |-> c.rc,
      hook |-> "clone_to_any_send_sync", relabel |-> FALSE]

\* The Send + Sync impl copied from the Send impl with its target type left
\* as Box<dyn CloneAny + Send>.
transmute_to_send(bx, variant) == [bx EXCEPT !.variant = "Send"]

\* mem::transmute::<Box<dyn CloneAny>, Box<dyn CloneAny + ...>>: the same
\* fat pointer under another static type.
transmute(bx, variant) == [bx EXCEPT !.variant = variant]

\* Clone impls that call the hook of their own capability variant and
\* transmute nothing.
box_clone_qualified(b, h, r, s) ==
  CASE b[s].variant = "Send" -> clone_to_any_send(b, h, r, s)
    [] b[s].variant = "SendSync" -> clone_to_any_send_sync(b, h, r, s)
    [] OTHER -> clone_to_any(b, h, r, s)

\* <Box<dyn CloneAny ...> as Clone>::clone.  The Plain impl returns what
\* clone_to_any returns; the Send and Send + Sync impls call clone_to_any
\* too and transmute the result to their own type (the type_id() they read
\* first is not used).
box_clone(b, h, r, s) ==
  LET c == clone_to_any(b, h, r, s)
      v == b[s].variant
  IN IF v = "Plain"
       THEN c
       ELSE [c EXCEPT !.boxes[c.slot] = transmute(@, v), !.relabel = TRUE]

\* Dropping a box: the concrete type's drop glue (through the vtable for an
\* erased box), then the allocation is freed.
drop_box(b, h, r, s) ==
  LET a == b[s].data
  IN [boxes |-> [b EXCEPT ![s] = NoBox],
      heap |-> [h EXCEPT ![a] = FreeCell],
      rc |-> TDrop(b[s].vt, h[a].val, r)]

\* The three string literals of the Debug impls.
DynCloneAny == <<"d", "y", "n", " ", "C", "l", "o", "n", "e", "A", "n", "y">>
PlusSend == <<" ", "+", " ", "S", "e", "n", "d">>
PlusSync == <<" ", "+", " ", "S", "y", "n", "c">>

\* The three impls printing the same literal.
LabelSame(variant) == DynCloneAny

Label(variant) ==
  CASE variant = "Plain" -> DynCloneAny
    [] variant = "Send" -> DynCloneAny \o PlusSend
    [] variant = "SendSync" -> DynCloneAny \o PlusSend \o PlusSync
    [] OTHER -> <<>>

Fill(n) == [i \in 1..n |-> " "]

\* core::fmt::Formatter::pad: the text cut to the precision, then padded
\* with the fill character up to the width, as the alignment says (text is
\* left-aligned by default).
Pad(t, o) ==
  LET c == IF o.hasPrec /\ o.prec < Len(t) THEN SubSeq(t, 1, o.prec) ELSE t
      n == o.width - Len(c)
  IN IF n <= 0 THEN c
     ELSE CASE o.align = "<" -> c \o Fill(n)
            [] o.align = ">" -> Fill(n) \o c
            [] OTHER -> Fill(n \div 2) \o c \o Fill((n + 1) \div 2)

\* <dyn CloneAny ... as fmt::Debug>::fmt: f.pad("dyn CloneAny ...").
Debug_fmt(bx, o) == Pad(Label(bx.variant), o)

\* ------------------------------------------------------------ the callers
\* What a downcast's outcome shows the caller: the value by the concrete
\* type's equality, or whatever the undefined behaviour produced.
Seen(T, o, r) == IF o.kind = "value" THEN Observe(T, o.raw, r) ELSE o.raw

\* How an operation on slot s with type T relates to the step before it:
\* it follows the into_box::<T> that made the box, or it follows a clone
\* and works on the clone's source or on the duplicate.
Link(s, T) ==
  IF last.op = "into_box" /\ last.slot = s /\ last.T = T
    THEN [rel |-> "after_into_box", pval |-> last.arg, other |-> 0]
  ELSE IF last.op = "clone" /\ last.src = s
    THEN [rel |-> "after_clone", pval |-> last.val, other |-> last.slot]
  ELSE IF last.op = "clone" /\ last.slot = s
    THEN [rel |-> "after_clone", pval |-> last.val, other |-> last.src]
  ELSE [rel |-> "none", pval |-> 0, other |-> 0]

\* Nothing is said about an execution once it has had undefined behaviour.
Running == last.kind # "ub"

\* The value a live box holds, by its concrete type's equality.
ValueOf(b, h, r, s) == Observe(h[b[s].data].ty, h[b[s].data].val, r)

\* The caller-side check of the spec's section 7: compare type_id() with
\* the identifier of the expected type before an unchecked downcast.
Checked(bx, T) == type_id(bx) = TypeIdOf(T)

\* value.into_box() for a value n of type T, as one of the six interfaces.
IntoBox(T, n, cloneable, variant) ==
  /\ Running
  /\ Implements(T, cloneable, variant)
  /\ FreeSlots(boxes) # {}
  /\ LET mv == MakeValue(T, n, rc)
         nb == into_box(boxes, heap, T, mv.raw, cloneable, variant)
     IN /\ boxes' = nb.boxes
        /\ heap' = nb.heap
        /\ rc' = mv.rc
        /\ last' = [NoOp EXCEPT !.op = "into_box", !.slot = nb.slot, !.T = T,
                                !.kind = "value", !.val = n, !.arg = n]
  /\ UNCHANGED out

\* handle.clone(); the free slot stands for the memory the new box needs.
CloneBox(s) ==
  /\ Running
  /\ boxes[s].kind = "erased"
  /\ boxes[s].cloneable
  /\ FreeSlots(boxes) # {}
  /\ LET c == box_clone(boxes, heap, rc, s)
     IN /\ boxes' = c.boxes
        /\ heap' = c.heap
        /\ rc' = c.rc
        /\ last' = [NoOp EXCEPT !.op = "clone", !.slot = c.slot, !.src = s,
                                !.T = boxes[s].vt, !.kind = "value",
                                !.val = ValueOf(boxes, heap, rc, s),
                                !.hook = c.hook, !.relabel = c.relabel]
  /\ UNCHANGED out

\* handle.downcast_ref_unchecked::<T>()
DoRef(s, T) ==
  /\ Running
  /\ boxes[s].kind = "erased"
  /\ \E o \in downcast_ref_unchecked(boxes[s], heap, T) :
       last' = [NoOp EXCEPT !.op = "downcast_ref_unchecked", !.slot = s,
                            !.T = T, !.kind = o.kind,
                            !.val = Seen(T, o, rc),
                            !.rel = Link(s, T).rel, !.pval = Link(s, T).pval,
                            !.other = Link(s, T).other]
  /\ UNCHANGED <<boxes, heap, rc, out>>

\* *handle.downcast_mut_unchecked::<T>() = w
DoMut(s, T, w) ==
  /\ Running
  /\ boxes[s].kind = "erased"
  /\ \E o \in downcast_mut_unchecked(boxes[s], heap, T) :
       /\ last' = [NoOp EXCEPT !.op = "downcast_mut_unchecked", !.slot = s,
                               !.T = T, !.kind = o.kind,
                               !.val = Seen(T, o, rc), !.arg = w,
                               !.rel = Link(s, T).rel, !.pval = Link(s, T).pval,
                            !.other = Link(s, T).other]
       /\ IF o.kind = "value"
            THEN LET wr == TWrite(T, DataPtr(boxes[s]), w, heap, rc)
                 IN heap' = wr.heap /\ rc' = wr.rc
            ELSE UNCHANGED <<heap, rc>>
  /\ UNCHANGED <<boxes, out>>

\* handle.downcast_unchecked::<T>()
DoOwned(s, T) ==
  /\ Running
  /\ boxes[s].kind = "erased"
  /\ boxes' = downcast_unchecked(boxes, s, T)
  /\ \E o \in Reinterpret(heap[DataPtr(boxes[s])], T) :
       last' = [NoOp EXCEPT !.op = "downcast_unchecked", !.slot = s,
                            !.T = T, !.kind = o.kind,
                            !.val = Seen(T, o, rc),
                            !.rel = Link(s, T).rel, !.pval = Link(s, T).pval,
                            !.other = Link(s, T).other]
  /\ UNCHANGED <<heap, rc, out>>

\* The same three calls behind the caller's type_id() check.
DowncastRef(s, T) == Checked(boxes[s], T) /\ DoRef(s, T)
DowncastMut(s, T, w) == Checked(boxes[s], T) /\ DoMut(s, T, w)
DowncastOwned(s, T) == Checked(boxes[s], T) /\ DoOwned(s, T)

\* The caller lets a box (erased or typed) go out of scope.
DropBox(s) ==
  /\ Running
  /\ boxes[s].kind # "none"
  /\ LET d == drop_box(boxes, heap, rc, s)
     IN /\ boxes' = d.boxes
        /\ heap' = d.heap
        /\ rc' = d.rc
  /\ last' = [NoOp EXCEPT !.op = "drop", !.slot = s,
                          !.rel = Link(s, boxes[s].vt).rel,
                          !.pval = Link(s, boxes[s].vt).pval,
                          !.other = Link(s, boxes[s].vt).other]
  /\ UNCHANGED out

\* format!("{:?}", handle) with the options o, on a clone-capable handle
\* (the Debug impls of this module are those of the dyn CloneAny family).
DebugFmt(s, o) ==
  /\ Running
  /\ boxes[s].kind = "erased"
  /\ boxes[s].cloneable
  /\ out' = Debug_fmt(boxes[s], o)
  /\ last' = [NoOp EXCEPT !.op = "fmt", !.slot = s, !.T = boxes[s].vt,
                          !.val = ValueOf(boxes, heap, rc, s), !.opts = o]
  /\ UNCHANGED <<boxes, heap, rc>>

Next ==
  \/ \E T \in Types, n \in Vals, c \in BOOLEAN, v \in Variants :
       IntoBox(T, n, c, v)
  \/ \E s \in Slots : CloneBox(s)
  \/ \E s \in Slots, T \in Types : DowncastRef(s, T)
  \/ \E s \in Slots, T \in Types, w \in Vals : DowncastMut(s, T, w)
  \/ \E s \in Slots, T \in Types : DowncastOwned(s, T)
  \/ \E s \in Slots : DropBox(s)

Spec == Init /\ [][Next]_vars

\* Callers that skip the check and pass any T.
NextUnchecked ==
  \/ \E T \in Types, n \in Vals, c \in BOOLEAN, v \in Variants :
       IntoBox(T, n, c, v)
  \/ \E s \in Slots, T \in Types : DoRef(s, T)
  \/ \E s \in Slots, T \in Types, w \in Vals : DoMut(s, T, w)
  \/ \E s \in Slots, T \in Types : DoOwned(s, T)

SpecUnchecked == Init /\ [][NextUnchecked]_vars

\* Callers that erase values as clone-capable handles and format them.
NextFmt ==
  \/ \E T \in Types, n \in Vals, v \in Variants : IntoBox(T, n, TRUE, v)
  \/ \E s \in Slots, o \in FmtOptions : DebugFmt(s, o)

SpecFmt == Init /\ [][NextFmt]_vars

\* ------------------------------------------------------------- properties
DowncastOps ==
  {"downcast_ref_unchecked", "downcast_mut_unchecked", "downcast_unchecked"}

\* The concrete type of the value a box owns: the type that wrote its cell.
TrueType(b, h, s) == h[b[s].data].ty

\* C1: round trip.  A downcast (by reference, by mutable reference or owned)
\* with type T that directly follows the into_box::<T>(v) that made the
\* handle, for any of the six erasure interfaces, returns a value equal to
\* v; the borrowed and the owned access leave v as the value held.
C1_RoundTrip ==
  (last.op \in DowncastOps /\ last.rel = "after_into_box") =>
    /\ last.kind = "value"
    /\ last.val = last.pval
    /\ last.op # "downcast_mut_unchecked" =>
         ValueOf(boxes, heap, rc, last.slot) = last.pval

C1_Witness ==
  /\ last.op = "downcast_unchecked"
  /\ last.rel = "after_into_box"
  /\ last.T = "Rc"
  /\ last.val = 43
  /\ boxes[last.slot].kind = "typed"
  /\ \E s \in Slots : boxes[s].kind = "erased" /\ boxes[s].variant = "SendSync"

\* C2: in every reachable state every live erased handle reports, through
\* type_id(), the identifier of the concrete type of the value it was made
\* from; handles of two distinct concrete types never report the same
\* identifier; and no step changes what a handle that stays live reports.
TypeIdRight ==
  \A s \in Erased(boxes) :
    /\ type_id(boxes[s]) = TypeIdOf(TrueType(boxes, heap, s))
    /\ \A t \in Erased(boxes) :
         TrueType(boxes, heap, s) # TrueType(boxes, heap, t) =>
           type_id(boxes[s]) # type_id(boxes[t])

TypeIdStable ==
  \A s \in Erased(boxes) :
    (boxes'[s].kind = "erased" /\ boxes'[s].data = boxes[s].data) =>
      type_id(boxes'[s]) = type_id(boxes[s])

\* C2: type_id() is right and distinct per type in every state, and stable
\* over every step.
C2_TypeId == []TypeIdRight /\ [][TypeIdStable]_vars

C2_Witness ==
  /\ last.op = "downcast_mut_unchecked"
  /\ last.arg # last.val
  /\ \E s, t \in Erased(boxes) :
       /\ boxes[s].cloneable /\ ~boxes[t].cloneable
       /\ type_id(boxes[s]) = TypeIdOf("i32")
       /\ type_id(boxes[t]) = TypeIdOf("Rc")

\* C3: clone() of a clone-capable handle h makes a new handle (in a slot
\* that was empty, on an allocation of its own) with h's type_id() and h's
\* capability variant, clone-capable itself, whose downcast with h's
\* concrete type is a value equal to h's value at the moment of the clone;
\* it has no failure outcome, and h keeps its type, variant and value.
C3_CloneStep ==
  last'.op = "clone" =>
    LET h == last'.src
        d == last'.slot
        T == TrueType(boxes, heap, h)
        v == ValueOf(boxes, heap, rc, h)
    IN /\ boxes[h].kind = "erased" /\ boxes[h].cloneable
       /\ boxes[d].kind = "none"
       /\ boxes'[d].kind = "erased" /\ boxes'[d].cloneable
       /\ boxes'[d].data # boxes[h].data
       /\ type_id(boxes'[d]) = type_id(boxes[h])
       /\ boxes'[d].variant = boxes[h].variant
       /\ \A o \in downcast_ref_unchecked(boxes'[d], heap', T) :
            o.kind = "value" /\ Observe(T, o.raw, rc') = v
       /\ last'.kind = "value" /\ last'.val = v
       /\ boxes'[h] = boxes[h]
       /\ TrueType(boxes', heap', h) = T
       /\ ValueOf(boxes', heap', rc', h) = v

\* C3: every clone step is as described above.
C3_Clone == [][C3_CloneStep]_vars

C3_Witness ==
  /\ last.op = "clone"
  /\ boxes[last.slot].variant = "SendSync"
  /\ boxes[last.src].variant = "SendSync"
  /\ ValueOf(boxes, heap, rc, last.slot) = 43
  /\ ValueOf(boxes, heap, rc, last.src) = 43

\* C4: a handle and its clones are independent.  A write through
\* downcast_mut_unchecked on one handle, its drop or its owned downcast
\* leaves every other live handle whose concrete type clones deeply as it
\* was, with the value it had, whatever clones and writes came before.
C4_FrameStep ==
  last'.op \in {"downcast_mut_unchecked", "drop", "downcast_unchecked"} =>
    \A g \in Erased(boxes) \ {last'.slot} :
      DeepClone(TrueType(boxes, heap, g)) =>
        /\ boxes'[g] = boxes[g]
        /\ TrueType(boxes', heap', g) = TrueType(boxes, heap, g)
        /\ ValueOf(boxes', heap', rc', g) = ValueOf(boxes, heap, rc, g)

\* C4: every write, drop and owned downcast leaves the other handles of
\* deep-cloning types unchanged.
C4_Independent == [][C4_FrameStep]_vars

C4_Witness ==
  /\ last.op = "downcast_mut_unchecked"
  /\ last.rel = "after_clone"
  /\ DeepClone(last.T)
  /\ last.arg # last.pval
  /\ boxes[last.other].kind = "erased"
  /\ boxes[last.other].vt = last.T
  /\ ValueOf(boxes, heap, rc, last.other) = last.pval
  /\ ValueOf(boxes, heap, rc, last.slot) = last.arg

\* C5: every live Transferable handle holds a value of a concrete type that
\* is Send and every live Shareable handle one that is Send and Sync, be the
\* handle made by into_box or by clone(); the vtable it carries is that
\* type's.
C5_CapabilityBacked ==
  \A s \in Erased(boxes) :
    LET T == TrueType(boxes, heap, s)
    IN /\ boxes[s].vt = T
       /\ boxes[s].variant \in {"Send", "SendSync"} => IsSend(T)
       /\ boxes[s].variant = "SendSync" => IsSync(T)
       /\ boxes[s].cloneable => IsClone(T)

C5_Witness ==
  /\ last.op = "clone"
  /\ last.relabel
  /\ boxes[last.slot].variant = "Send"
  /\ TrueType(boxes, heap, last.slot) = "Cell"
  /\ ~IsSync(TrueType(boxes, heap, last.slot))

\* C6: ownership.  Every allocated cell has exactly one owning box and a
\* free cell none; every shared RcBox is counted once per box that points
\* to it; after a borrowed downcast the handle is still a live erased
\* handle; after the owned downcast the slot holds the Box<T> of the same
\* allocation and no erased handle owns that allocation any more.
Owners(a) == {s \in Slots : boxes[s].kind # "none" /\ boxes[s].data = a}

RcOwners(p) ==
  {s \in Slots : /\ boxes[s].kind # "none"
                 /\ heap[boxes[s].data].ty = "Rc"
                 /\ heap[boxes[s].data].val = p}

\* C6: one owner per allocation, borrowed downcasts keep the handle, the
\* owned downcast hands the allocation over once.
C6_Ownership ==
  /\ \A a \in Addrs :
       Cardinality(Owners(a)) = IF heap[a].ty = "free" THEN 0 ELSE 1
  /\ \A p \in Addrs : rc[p].strong = Cardinality(RcOwners(p))
  /\ last.op \in {"downcast_ref_unchecked", "downcast_mut_unchecked"} =>
       boxes[last.slot].kind = "erased"
  /\ last.op = "downcast_unchecked" =>
       /\ boxes[last.slot].kind = "typed"
       /\ \A s \in Erased(boxes) : boxes[s].data # boxes[last.slot].data

C6_Witness ==
  /\ last.op = "downcast_unchecked"
  /\ boxes[last.slot].kind = "typed"
  /\ heap[boxes[last.slot].data].ty = "Rc"
  /\ \E s \in Erased(boxes) :
       /\ heap[boxes[s].data].ty = "Rc"
       /\ heap[boxes[s].data].val = heap[boxes[last.slot].data].val
       /\ rc[heap[boxes[s].data].val].strong = 2

\* C7: callers that downcast to T only when type_id() equals the identifier
\* of T never break the precondition: every downcast performed, on a handle
\* of any variant, made by into_box or clone, has T equal to the concrete
\* type of the value behind the handle, and none is undefined behaviour.
C7_GuardedSafe ==
  last.op \in DowncastOps =>
    /\ last.kind = "value"
    /\ last.T = TrueType(boxes, heap, last.slot)

C7_Witness ==
  /\ last.op = "downcast_mut_unchecked"
  /\ last.T = "Rc"
  /\ last.kind = "value"
  /\ \E s \in Erased(boxes) :
       TrueType(boxes, heap, s) = "Cell" /\ boxes[s].variant = "Send"

\* C8: the unchecked downcasts compare nothing and report nothing.  Called
\* with any T on any live handle each of them goes ahead (none is refused);
\* the outcome is a value when T is the concrete type and undefined
\* behaviour when it is not, never an error or a mismatch value.
C8_NoCheck ==
  /\ last.op \in DowncastOps =>
       /\ last.kind \in {"value", "ub"}
       /\ last.kind = "ub" <=> last.T # TrueType(boxes, heap, last.slot)
  /\ Running =>
       \A s \in Erased(boxes), T \in Types :
         /\ ENABLED DoRef(s, T)
         /\ ENABLED DoMut(s, T, 42)
         /\ ENABLED DoOwned(s, T)

C8_Witness ==
  /\ last.op = "downcast_unchecked"
  /\ last.kind = "ub"
  /\ boxes[last.slot].kind = "typed"
  /\ boxes[last.slot].vt = "Rc"
  /\ TrueType(boxes, heap, last.slot) = "i32"

\* C9 as claimed: Debug-formatting an erased handle yields the placeholder
\* of its variant, whatever the format specification.
ClaimedPlaceholder(variant) ==
  CASE variant = "Plain" ->
         <<"d", "y", "n", " ", "C", "l", "o", "n", "e", "A", "n", "y">>
    [] variant = "Send" ->
         <<"d", "y", "n", " ", "C", "l", "o", "n", "e", "A", "n", "y",
           " ", "+", " ", "S", "e", "n", "d">>
    [] OTHER ->
         <<"d", "y", "n", " ", "C", "l", "o", "n", "e", "A", "n", "y",
           " ", "+", " ", "S", "e", "n", "d", " ", "+", " ", "S", "y", "n", "c">>

\* C9, the claim as made: the output is the bare placeholder.
C9_Original ==
  last.op = "fmt" => out = ClaimedPlaceholder(boxes[last.slot].variant)

\* C9, amended: formatted with no width and no precision ({:?}) an erased
\* clone-capable handle yields exactly the placeholder of its variant,
\* which differs from the other variants' placeholders; with a width or a
\* precision the output is that placeholder padded or cut by the formatter.
\* Either way it depends on the variant and the format specification only,
\* not on the concrete type or the value stored.
C9_Placeholder ==
  last.op = "fmt" =>
    LET v == boxes[last.slot].variant
        o == last.opts
    IN /\ out = Pad(ClaimedPlaceholder(v), o)
       /\ (o.width = 0 /\ ~o.hasPrec) =>
            /\ out = ClaimedPlaceholder(v)
            /\ \A w \in Variants \ {v} : out # Label(w)
       /\ \A T \in Types, c \in BOOLEAN, a \in Addrs :
            Debug_fmt([boxes[last.slot] EXCEPT !.vt = T, !.cloneable = c,
                                               !.data = a], o) = out

C9_Witness ==
  /\ last.op = "fmt"
  /\ last.opts = NoOpts
  /\ boxes[last.slot].variant = "SendSync"
  /\ last.val = 43
  /\ Len(out) = Len(DynCloneAny) + Len(PlusSend) + Len(PlusSync)
  /\ \E s \in Erased(boxes) : boxes[s].variant = "Send" /\ boxes[s].vt = "Cell"

\* C10 as claimed: the clone of a Transferable or Shareable handle comes
\* from the hook of that variant and is not relabeled.
QualifiedHook(variant) ==
  CASE variant = "Send" -> "clone_to_any_send"
    [] variant = "SendSync" -> "clone_to_any_send_sync"
    [] OTHER -> "clone_to_any"

\* C10, the claim as made: variant-specific hook, no relabeling.
C10_Original ==
  last.op = "clone" =>
    /\ last.hook = QualifiedHook(boxes[last.slot].variant)
    /\ ~last.relabel

\* C10, amended: every clone, of any variant, is made by the Plain hook
\* clone_to_any; for a Transferable or Shareable handle the result is then
\* transmuted to the handle's own variant (and for a Plain one it is not).
\* The capability the duplicate is given is one its concrete type has.
C10_PlainHook ==
  last.op = "clone" =>
    LET d == boxes[last.slot]
    IN /\ last.hook = "clone_to_any"
       /\ last.relabel <=> d.variant # "Plain"
       /\ Implements(TrueType(boxes, heap, last.slot), TRUE, d.variant)

C10_Witness ==
  /\ last.op = "clone"
  /\ last.hook = "clone_to_any"
  /\ last.relabel
  /\ boxes[last.slot].variant = "SendSync"
  /\ boxes[last.slot].vt = "i32"

====
